---- MODULE Spec2Model ----
(***************************************************************************)
(* Model of the B1Circuit component (src/unnamed/part_001): the battery    *)
(* state machine, the particle pool, the spawn pool and the three browser  *)
(* time sources (requestAnimationFrame, the 1000 ms depletion interval,    *)
(* the 200 ms spawn interval) together with the one-shot removal timeouts. *)
(*                                                                         *)
(* Naming: the source's isOpen is TRUE when the circuit is CLOSED (current *)
(* flows); the specification calls the same flag circuitClosed.            *)
(*                                                                         *)
(* Time is kept in milliseconds and advances in quanta of one spawn period.*)
(* Clocks are stored relative to the present: a timer is its remaining     *)
(* time, a spawn-pool entry is its age (Date.now() - start) and            *)
(* lastTimeRef is the time elapsed since the last frame callback.          *)
(*                                                                         *)
(* One action is one browser task: the callback, the React render it       *)
(* schedules, the commit, and the clean-up and set-up of the effects whose *)
(* dependencies [isOpen, isDepleted] changed.                              *)
(***************************************************************************)
EXTENDS Integers, Sequences, FiniteSets, TLC

\* ---- program constants ----
RAIL_TOTAL_LENGTH == 2040
ELECTRON_SPEED == 20
ELECTROLYTE_DEPLETION_RATE == 5
IONS_DEPLETION_RATE == 5
FULL_ELECTROLYTE == 75
FULL_IONS == 75
DEPLETION_INTERVAL_MS == 1000
SPAWN_INTERVAL_MS == 200
SPAWN_LIFETIME_MS == 1000
MS_PER_SECOND == 1000
FIELD_LINE_STEP == 40

\* ---- bounds of the model ----
NumElectrons == 2
MaxToggles == 3
MaxFrameGap == 2
MaxLate == 1
MaxLaps == 1
MaxSends == 3

\* one step of the clock
Quantum == SPAWN_INTERVAL_MS

\* candidate values of Math.random() * RAIL_TOTAL_LENGTH for a new electron
InitTrackPos == {0, RAIL_TOTAL_LENGTH - 2}

VARIABLES
    isOpen,              \* useState(false): TRUE = circuit closed
    isDepleted,          \* useState(false): battery exhausted
    electrolyteH,        \* useState(75)
    ionsCount,           \* useState(75)
    electrons,           \* [1..NumElectrons -> trackPos]
    batElectrons,        \* sequence of [id, age]; age = Date.now() - start
    requestRef,          \* id of the last requested animation frame, 0 = null
    sinceLastFrame,      \* now - lastTimeRef.current (null counts as 0)
    batteryIntervalRef,  \* id of the last depletion interval, 0 = null
    spawnCleanup,        \* interval id held by the spawn effect's clean-up, 0 = none
    frames,              \* pending animation frames: [id, isOpen, isDepleted]
                         \*   (the values the animate closure captured)
    batteryTimers,       \* active depletion intervals: [id, left]
    spawnTimers,         \* active spawn intervals: [id, left]
    removalTimers,       \* pending removal timeouts: [id, left], id = entry id
    fieldP,              \* loop variable p of the fieldLinesGenerated loop
    fieldLines,          \* the array 'lines' the loop is filling
    xyIn,                \* arguments of the last getXY call: [trackPos, transPos]
    xyOut,               \* the Point that call returned
    drawn,               \* what the render made of that Point: <<>> or one record
    \* ---- the tutoring panel (Docent) ----
    messages,            \* useState([intro]): sequence of [role, text]
    inputValue,          \* useState('')
    isPart2,             \* useState(false)
    isLoading,           \* useState(false)
    inFlight,            \* handleSend calls suspended at their await:
                         \*   [newMessages, isPart2] as the closure captured them
    docentEvent,         \* history: what the panel did last
    sends,               \* history: number of sends accepted so far
    lastResult,          \* history: the last outcome, [ok, allFactsIdentified]
    \* ---- history variables (observers, never read by the program) ----
    lastEvent,           \* the handler that ran last
    toggles,             \* number of user toggles so far
    ticks,               \* depletion ticks since the battery was last full
    electrons0,          \* track positions at mount
    advancedMs,          \* sum of the deltas of the frames that moved electrons
    phaseMs,             \* time since (isOpen, isDepleted) last changed, capped
    resets               \* number of toggles that ran resetBattery

progVars == <<isOpen, isDepleted, electrolyteH, ionsCount, electrons, batElectrons,
              requestRef, sinceLastFrame, batteryIntervalRef, spawnCleanup,
              frames, batteryTimers, spawnTimers, removalTimers>>
histVars == <<lastEvent, toggles, ticks, electrons0, advancedMs, phaseMs,
              resets>>
xyVars == <<fieldP, fieldLines, xyIn, xyOut, drawn>>
docentVars == <<messages, inputValue, isPart2, isLoading, inFlight, docentEvent,
                sends, lastResult>>
vars == <<progVars, histVars, xyVars, docentVars>>

\* ---- helpers ----
Max(a, b) == IF a >= b THEN a ELSE b
Min(a, b) == IF a <= b THEN a ELSE b
Ids(S) == {t.id : t \in S}
\* A new timer handle. Browsers never reuse a handle; the model reuses one
\* only when no live timer of that kind holds it.
FreshId(used) == CHOOSE n \in 1..(Cardinality(used) + 1) : n \notin used
SeqIds(s) == {s[i].id : i \in 1..Len(s)}

Active(o, d) == o /\ ~d
ClosedActive == Active(isOpen, isDepleted)

\* cap of phaseMs while the circuit is not depleting
PhaseCap == DEPLETION_INTERVAL_MS

\* ---- pure parts of the handlers ----

\* variant: resetBattery without setIsOpen(false), which leaves the circuit closed
resetBattery_keepsClosed ==
    [electrolyteH |-> FULL_ELECTROLYTE, ionsCount |-> FULL_IONS,
     isDepleted |-> FALSE, isOpen |-> TRUE]

\* resetBattery: the four setters, as the state they produce
resetBattery ==
    [electrolyteH |-> FULL_ELECTROLYTE, ionsCount |-> FULL_IONS,
     isDepleted |-> FALSE, isOpen |-> FALSE]

\* variant: handleToggle that returns early when the battery is exhausted
handleToggle_ignoresExhausted(o, d, h, c) ==
    IF d THEN [electrolyteH |-> h, ionsCount |-> c, isDepleted |-> d, isOpen |-> o]
         ELSE [electrolyteH |-> h, ionsCount |-> c, isDepleted |-> d, isOpen |-> ~o]

\* variant: handleToggle that refills the battery whenever it flips the switch
handleToggle_refillsOnFlip(o, d, h, c) ==
    IF d THEN resetBattery
         ELSE [electrolyteH |-> FULL_ELECTROLYTE, ionsCount |-> FULL_IONS,
               isDepleted |-> d, isOpen |-> ~o]

\* variant: handleToggle flips the switch whatever the battery's state
handleToggle_alwaysFlips(o, d, h, c) ==
    [electrolyteH |-> h, ionsCount |-> c, isDepleted |-> d, isOpen |-> ~o]

\* handleToggle: if (isDepleted) resetBattery(); else setIsOpen(!isOpen)
handleToggle(o, d, h, c) ==
    IF d THEN resetBattery
         ELSE [electrolyteH |-> h, ionsCount |-> c, isDepleted |-> d, isOpen |-> ~o]

\* variant: animate that tests isOpen alone
animateMoves_ignoresDepleted(f) == f.isOpen

\* animate: the test that guards setElectrons, on the closure's captured flags
animateMoves(f) == f.isOpen /\ ~f.isDepleted

\* variant: animate that adds the step without wrapping
nextTrackPos_noWrap(trackPos, deltaMs) ==
    trackPos + (ELECTRON_SPEED * deltaMs) \div MS_PER_SECOND

\* animate: (e.trackPos + ELECTRON_SPEED * deltaTime) % RAIL_TOTAL_LENGTH,
\* deltaTime = deltaMs / 1000
nextTrackPos(trackPos, deltaMs) ==
    (trackPos + (ELECTRON_SPEED * deltaMs) \div MS_PER_SECOND) % RAIL_TOTAL_LENGTH

\* variant: the electrolyte drains two steps per tick
depleteH_twoSteps(h) == Max(0, h - 2 * ELECTROLYTE_DEPLETION_RATE)

\* depletion callback: Math.max(0, h - ELECTROLYTE_DEPLETION_RATE)
depleteH(h) == Max(0, h - ELECTROLYTE_DEPLETION_RATE)
\* variant: the ions go one at a time
depleteIons_oneByOne(c) == Max(0, c - 1)

\* depletion callback: Math.max(0, c - IONS_DEPLETION_RATE)
depleteIons(c) == Max(0, c - IONS_DEPLETION_RATE)
\* variant: the exhaustion test fires one decrement early
depletedAfter_early(newH, d) == IF newH <= ELECTROLYTE_DEPLETION_RATE THEN TRUE ELSE d

\* variant: the exhaustion test uses < and so never succeeds after the clamp
depletedAfter_strict(newH, d) == IF newH < 0 THEN TRUE ELSE d

\* depletion callback: if (newH === 0) setIsDepleted(true)
depletedAfter(newH, d) == IF newH = 0 THEN TRUE ELSE d

\* cancelAnimationFrame / clearInterval behind an "if (ref.current)" test
cancelIfSet(timers, ref) == IF ref # 0 THEN {t \in timers : t.id # ref} ELSE timers

\* ---- the three effects with dependencies [isOpen, isDepleted] ----
\* Each takes the timers of its kind and the committed flags, runs the
\* previous clean-up and then the new set-up.

\* variant: the animation effect without its clean-up
animationEffect_noCancel(fr, ref, o, d) ==
    LET id == FreshId(Ids(fr))
    IN  [timers |-> fr \cup {[id |-> id, isOpen |-> o, isDepleted |-> d]}, ref |-> id]

\* variant: the animation effect with an empty dependency list: the loop
\* started at mount keeps its first animate closure
animationEffect_mountOnly(fr, ref, o, d) == [timers |-> fr, ref |-> ref]

\* useEffect: requestRef.current = requestAnimationFrame(animate);
\* clean-up: if (requestRef.current) cancelAnimationFrame(requestRef.current)
animationEffect(fr, ref, o, d) ==
    LET cleaned == cancelIfSet(fr, ref)
        id == FreshId(Ids(cleaned))
    IN  [timers |-> cleaned \cup {[id |-> id, isOpen |-> o, isDepleted |-> d]},
         ref |-> id]

\* variant: the depletion effect never clears its interval
batteryEffect_noClear(bt, ref, o, d) ==
    LET id == FreshId(Ids(bt))
    IN  IF Active(o, d) /\ bt = {}
        THEN [timers |-> {[id |-> id, left |-> DEPLETION_INTERVAL_MS]}, ref |-> id]
        ELSE [timers |-> bt, ref |-> ref]

\* variant: the depletion effect keeps the ticking interval when the circuit
\* is opened and clears it only on exhaustion
batteryEffect_clearsOnlyExhausted(bt, ref, o, d) ==
    LET id == FreshId(Ids(bt))
    IN  IF d THEN [timers |-> {}, ref |-> ref]
        ELSE IF o /\ bt = {}
        THEN [timers |-> {[id |-> id, left |-> DEPLETION_INTERVAL_MS]}, ref |-> id]
        ELSE [timers |-> bt, ref |-> ref]

\* useEffect: setInterval(depletion, 1000) when active, else clearInterval;
\* clean-up: if (batteryIntervalRef.current) clearInterval(...)
batteryEffect(bt, ref, o, d) ==
    LET cleaned == cancelIfSet(bt, ref)
        id == FreshId(Ids(cleaned))
    IN  IF Active(o, d)
        THEN [timers |-> cleaned \cup {[id |-> id, left |-> DEPLETION_INTERVAL_MS]},
              ref |-> id]
        ELSE [timers |-> cancelIfSet(cleaned, ref), ref |-> ref]

\* variant: the spawn effect returns no clean-up
spawnEffect_noCleanup(st, cl, o, d) ==
    LET id == FreshId(Ids(st))
    IN  IF Active(o, d)
        THEN [timers |-> st \cup {[id |-> id, left |-> SPAWN_INTERVAL_MS]}, ref |-> id]
        ELSE [timers |-> st, ref |-> 0]

\* variant: the spawn effect tests isOpen alone
spawnEffect_ignoresDepleted(st, cl, o, d) ==
    LET cleaned == cancelIfSet(st, cl)
        id == FreshId(Ids(cleaned))
    IN  IF o
        THEN [timers |-> cleaned \cup {[id |-> id, left |-> SPAWN_INTERVAL_MS]},
              ref |-> id]
        ELSE [timers |-> cleaned, ref |-> 0]

\* variant: the spawn interval admits its first entry at once on entering
spawnEffect_firstAtOnce(st, cl, o, d) ==
    LET cleaned == cancelIfSet(st, cl)
        id == FreshId(Ids(cleaned))
    IN  IF Active(o, d)
        THEN [timers |-> cleaned \cup {[id |-> id, left |-> 0]}, ref |-> id]
        ELSE [timers |-> cleaned, ref |-> 0]

\* useEffect: when active, setInterval(spawn, 200) and return a clean-up that
\* clears that interval; otherwise nothing is returned
spawnEffect(st, cl, o, d) ==
    LET cleaned == cancelIfSet(st, cl)
        id == FreshId(Ids(cleaned))
    IN  IF Active(o, d)
        THEN [timers |-> cleaned \cup {[id |-> id, left |-> SPAWN_INTERVAL_MS]},
              ref |-> id]
        ELSE [timers |-> cleaned, ref |-> 0]

\* React commit of new flags o, d: the effects run only if a dependency
\* changed. fr, bt, st are the timers as the callback left them.
Commit(o, d, fr, bt, st) ==
    IF o # isOpen \/ d # isDepleted
    THEN LET a == animationEffect(fr, requestRef, o, d)
             b == batteryEffect(bt, batteryIntervalRef, o, d)
             s == spawnEffect(st, spawnCleanup, o, d)
         IN  /\ frames' = a.timers
             /\ requestRef' = a.ref
             /\ batteryTimers' = b.timers
             /\ batteryIntervalRef' = b.ref
             /\ spawnTimers' = s.timers
             /\ spawnCleanup' = s.ref
             /\ phaseMs' = 0
    ELSE /\ frames' = fr
         /\ batteryTimers' = bt
         /\ spawnTimers' = st
         /\ UNCHANGED <<requestRef, batteryIntervalRef, spawnCleanup, phaseMs>>

\* ---- initial state: after mount and the first run of the effects ----
\* ---- the rail's geometry ----
\* Lengths and coordinates are counted in half pixels, so that 317.5, 7.5,
\* 642.5 and 392.5 are the integers 635, 15, 1285 and 785.
HalfPx(px) == 2 * px

\* JavaScript's %: the remainder takes the sign of the dividend
JsRem(a, n) == IF a >= 0 THEN a % n ELSE -((-a) % n)

\* variant: a negative remainder is not brought back into [0, L)
normalise_noNegativeFix(trackPos) == JsRem(trackPos, HalfPx(RAIL_TOTAL_LENGTH))

\* let p = trackPos % RAIL_TOTAL_LENGTH; if (p < 0) p += RAIL_TOTAL_LENGTH
normalise(trackPos) ==
    LET p == JsRem(trackPos, HalfPx(RAIL_TOTAL_LENGTH))
    IN  IF p < 0 THEN p + HalfPx(RAIL_TOTAL_LENGTH) ELSE p

\* variant: the closing part of the top side starts one pixel to the right of
\* the rail's left edge
locateClosingTop_gapAtCorner(p, transPos) ==
    [x |-> 17 + (p - 3445), y |-> 15 + transPos, segment |-> "top"]

\* the last branch of getXY: the closing part of the top side
locateClosingTop(p, transPos) ==
    [x |-> 15 + (p - 3445), y |-> 15 + transPos, segment |-> "top"]

getXY(trackPos, transPos) ==
    LET p == normalise(trackPos)
        s1 == 635
        s2 == 770
        s3 == 1270
        s4 == 770
    IN  IF p < s1
          THEN [x |-> 650 + p, y |-> 15 + transPos, segment |-> "top"]
        ELSE IF p < s1 + s2
          THEN [x |-> 1285 - transPos, y |-> 15 + (p - s1), segment |-> "right"]
        ELSE IF p < s1 + s2 + s3
          THEN [x |-> 1285 - (p - (s1 + s2)), y |-> 785 - transPos,
                segment |-> "bottom"]
        ELSE IF p < s1 + s2 + s3 + s4
          THEN [x |-> 15 + transPos, y |-> 785 - (p - (s1 + s2 + s3)),
                segment |-> "left"]
        ELSE locateClosingTop(p, transPos)

NoPoint == [x |-> 0, y |-> 0, segment |-> "none"]

\* variant: the battery window is applied whatever the side
skipFieldLine_anySide(pos) == pos.x >= HalfPx(250) /\ pos.x <= HalfPx(400)

\* if (pos.segment === 'top' && pos.x >= 250 && pos.x <= 400) continue
skipFieldLine(pos) ==
    pos.segment = "top" /\ pos.x >= HalfPx(250) /\ pos.x <= HalfPx(400)

\* values of e.transPos = Math.random() * 15 - 7.5, and the 0 of the field lines
TransPosValues == {-15, -7, 0, 15}

\* ---- the tutoring panel: pure parts ----
\* the first message of the transcript, and the fixed text of the catch branch
IntroMessage == [role |-> "model", text |-> "intro"]
ErrorMessage == [role |-> "model", text |-> "error"]

\* what the user may have typed; Trim is String.prototype.trim on these
InputValues == {"", "  ", "hola", " hola "}
Trim(v) == IF v = "  " THEN "" ELSE IF v = " hola " THEN "hola" ELSE v

\* variant: handleSend tests the input alone
handleSendAccepts_ignoresLoading(v, loading) == Trim(v) # ""

\* if (!inputValue.trim() || isLoading) return
handleSendAccepts(v, loading) == ~(Trim(v) = "" \/ loading)

\* variant: any response that parses moves the panel to its second part
setsPart2_anyResponse(allFactsIdentified, part2) == ~part2

\* the test of: if (result.allFactsIdentified && !isPart2) setIsPart2(true),
\* on the isPart2 the closure captured
setsPart2(allFactsIdentified, part2) == allFactsIdentified /\ ~part2

Init ==
    /\ isOpen = FALSE
    /\ isDepleted = FALSE
    /\ electrolyteH = FULL_ELECTROLYTE
    /\ ionsCount = FULL_IONS
    \* electrons are interchangeable: the draws are taken in ascending order
    /\ electrons \in {e \in [1..NumElectrons -> InitTrackPos] :
                         \A i \in 1..(NumElectrons - 1) : e[i] <= e[i + 1]}
    /\ batElectrons = <<>>
    /\ frames = {[id |-> 1, isOpen |-> FALSE, isDepleted |-> FALSE]}
    /\ requestRef = 1
    \* lastTimeRef is null, which animate reads as 0: the first delta is the
    \* time since the page's time origin
    /\ sinceLastFrame \in {k * Quantum : k \in 0..MaxFrameGap}
    /\ batteryIntervalRef = 0
    /\ batteryTimers = {}
    /\ spawnTimers = {}
    /\ spawnCleanup = 0
    /\ removalTimers = {}
    /\ lastEvent = "mount"
    /\ toggles = 0
    /\ ticks = 0
    /\ electrons0 = electrons
    /\ advancedMs = 0
    /\ phaseMs = 0
    /\ resets = 0
    /\ fieldP = 0
    /\ fieldLines = <<>>
    /\ xyIn = [trackPos |-> 0, transPos |-> 0]
    /\ xyOut = NoPoint
    /\ drawn = <<>>
    /\ messages = <<IntroMessage>>
    /\ inputValue = ""
    /\ isPart2 = FALSE
    /\ isLoading = FALSE
    /\ inFlight = <<>>
    /\ docentEvent = "mount"
    /\ sends = 0
    /\ lastResult = [ok |-> FALSE, allFactsIdentified |-> FALSE]

\* ---- actions ----

\* onClick={handleToggle}
HandleToggle ==
    /\ toggles < MaxToggles
    /\ LET r == handleToggle(isOpen, isDepleted, electrolyteH, ionsCount)
       IN  /\ isOpen' = r.isOpen
           /\ isDepleted' = r.isDepleted
           /\ electrolyteH' = r.electrolyteH
           /\ ionsCount' = r.ionsCount
           /\ Commit(r.isOpen, r.isDepleted, frames, batteryTimers, spawnTimers)
           /\ ticks' = IF r.electrolyteH = FULL_ELECTROLYTE THEN 0 ELSE ticks
    /\ toggles' = toggles + 1
    /\ resets' = IF isDepleted THEN resets + 1 ELSE resets
    /\ lastEvent' = "toggle"
    /\ UNCHANGED <<xyVars, docentVars, electrons, batElectrons, sinceLastFrame, removalTimers,
                   electrons0, advancedMs>>

\* a pending animation frame fires: animate(time)
Animate ==
    \E f \in frames :
        /\ sinceLastFrame > 0
        /\ electrons' = IF animateMoves(f)
                        THEN [i \in 1..NumElectrons |->
                                 nextTrackPos(electrons[i], sinceLastFrame)]
                        ELSE electrons
        /\ advancedMs' = IF animateMoves(f) THEN advancedMs + sinceLastFrame
                                            ELSE advancedMs
        /\ sinceLastFrame' = 0
        /\ LET rest == frames \ {f}
               id == FreshId(Ids(rest))
           IN  /\ frames' = rest \cup {[f EXCEPT !.id = id]}
               /\ requestRef' = id
        /\ lastEvent' = "frame"
        /\ UNCHANGED <<xyVars, docentVars, isOpen, isDepleted, electrolyteH, ionsCount, batElectrons,
                       batteryIntervalRef, spawnCleanup, batteryTimers,
                       spawnTimers, removalTimers, toggles, ticks, electrons0,
                       phaseMs, resets>>

\* a depletion interval fires
Deplete ==
    \E t \in batteryTimers :
        /\ t.left <= 0
        /\ LET newH == depleteH(electrolyteH)
               d == depletedAfter(newH, isDepleted)
               rearmed == (batteryTimers \ {t})
                            \cup {[t EXCEPT !.left = DEPLETION_INTERVAL_MS]}
           IN  /\ electrolyteH' = newH
               /\ ionsCount' = depleteIons(ionsCount)
               /\ isDepleted' = d
               /\ Commit(isOpen, d, frames, rearmed, spawnTimers)
        /\ ticks' = ticks + 1
        /\ lastEvent' = "deplete"
        /\ UNCHANGED <<xyVars, docentVars, isOpen, electrons, batElectrons, sinceLastFrame,
                       removalTimers, toggles, electrons0, advancedMs, resets>>

\* a spawn interval fires: one entry is admitted and its removal scheduled
Spawn ==
    \E t \in spawnTimers :
        /\ t.left <= 0
        /\ LET id == FreshId(SeqIds(batElectrons) \cup Ids(removalTimers))
           IN  /\ batElectrons' = Append(batElectrons, [id |-> id, age |-> 0])
               /\ removalTimers' = removalTimers
                                     \cup {[id |-> id, left |-> SPAWN_LIFETIME_MS]}
        /\ spawnTimers' = (spawnTimers \ {t})
                            \cup {[t EXCEPT !.left = SPAWN_INTERVAL_MS]}
        /\ lastEvent' = "spawn"
        /\ UNCHANGED <<xyVars, docentVars, isOpen, isDepleted, electrolyteH, ionsCount, electrons,
                       requestRef, sinceLastFrame, batteryIntervalRef,
                       spawnCleanup, frames, batteryTimers, toggles, ticks,
                       electrons0, advancedMs, phaseMs, resets>>

\* Entry ids are opaque (Math.random()): states that differ only in the ids
\* are identified by renaming the ids to the entries' birth order.
RankOf(s, id) == IF id \in SeqIds(s) THEN CHOOSE i \in 1..Len(s) : s[i].id = id
                                     ELSE Len(s) + id
RenamedPool(s) == [i \in 1..Len(s) |-> [s[i] EXCEPT !.id = i]]
RenamedTimers(s, timers) == {[t EXCEPT !.id = RankOf(s, t.id)] : t \in timers}

\* a removal timeout fires: prev.filter(e => e.id !== id)
\* variant: the removal callback empties the whole pool
removeEntry_dropsAll(pool, id) == <<>>

removeEntry(pool, id) == SelectSeq(pool, LAMBDA e : e.id # id)
Remove ==
    \E t \in removalTimers :
        /\ t.left <= 0
        /\ LET kept == removeEntry(batElectrons, t.id)
           IN  /\ batElectrons' = RenamedPool(kept)
               /\ removalTimers' = RenamedTimers(kept, removalTimers \ {t})
        /\ lastEvent' = "remove"
        /\ UNCHANGED <<xyVars, docentVars, isOpen, isDepleted, electrolyteH, ionsCount, electrons,
                       requestRef, sinceLastFrame, batteryIntervalRef,
                       spawnCleanup, frames, batteryTimers, spawnTimers,
                       toggles, ticks, electrons0, advancedMs, phaseMs,
                       resets>>

\* the clock advances by one quantum
Elapse(timers) == {[t EXCEPT !.left = t.left - Quantum] : t \in timers}
ClockAdvances ==
    /\ batteryTimers' = Elapse(batteryTimers)
    /\ spawnTimers' = Elapse(spawnTimers)
    /\ removalTimers' = Elapse(removalTimers)
    /\ batElectrons' = [i \in 1..Len(batElectrons) |->
                           [batElectrons[i] EXCEPT !.age = @ + Quantum]]
    /\ sinceLastFrame' = sinceLastFrame + Quantum
    /\ phaseMs' = IF ClosedActive THEN phaseMs + Quantum
                                  ELSE Min(phaseMs + Quantum, PhaseCap)
    /\ lastEvent' = "time"
    /\ UNCHANGED <<xyVars, docentVars, isOpen, isDepleted, electrolyteH, ionsCount, electrons,
                   requestRef, batteryIntervalRef, spawnCleanup, frames,
                   toggles, ticks, electrons0, advancedMs, resets>>

AllTimers == batteryTimers \cup spawnTimers \cup removalTimers

\* time passes with every timer punctual: a due timer fires first, and the
\* display delivers a frame at least every MaxFrameGap quanta
TimePasses ==
    /\ \A t \in AllTimers : t.left >= Quantum
    /\ sinceLastFrame + Quantum <= MaxFrameGap * Quantum
    /\ ClockAdvances

\* time passes although a removal timeout is due: setTimeout promises a minimum
\* delay only, so the callback may run up to MaxLate quanta late
TimePassesLate ==
    /\ \E t \in removalTimers : t.left < Quantum
    /\ \A t \in removalTimers : t.left - Quantum >= -(MaxLate * Quantum)
    /\ \A t \in batteryTimers \cup spawnTimers : t.left >= Quantum
    /\ sinceLastFrame + Quantum <= MaxFrameGap * Quantum
    /\ ClockAdvances

Next ==
    \/ HandleToggle
    \/ Animate
    \/ Deplete
    \/ Spawn
    \/ Remove
    \/ TimePasses

Spec == Init /\ [][Next]_vars

\* mount at the page's time origin, every electron drawn at trackPos 0
InitAtOrigin ==
    /\ Init
    /\ sinceLastFrame = 0
    /\ \A i \in 1..NumElectrons : electrons[i] = 0

\* the same program where the removal timeouts may run late; the electrons'
\* draws and the first frame's offset play no part in the pool
NextLate ==
    \/ HandleToggle
    \/ Animate
    \/ Deplete
    \/ Spawn
    \/ Remove
    \/ TimePasses
    \/ TimePassesLate

SpecLate == InitAtOrigin /\ [][NextLate]_vars

\* ---- the geometry on its own ----
\* one iteration of: for (let p = 0; p < RAIL_TOTAL_LENGTH; p += 40)
FieldLineStep ==
    /\ fieldP < RAIL_TOTAL_LENGTH
    /\ LET pos == getXY(HalfPx(fieldP), 0)
       IN  fieldLines' = IF skipFieldLine(pos) THEN fieldLines
                                              ELSE Append(fieldLines, pos)
    /\ fieldP' = fieldP + FIELD_LINE_STEP
    /\ UNCHANGED <<progVars, histVars, docentVars, xyIn, xyOut, drawn>>

\* a render calls getXY(e.trackPos, e.transPos), once the field lines exist;
\* getXY keeps no state, so one call per behaviour is followed
TrackPosValues ==
    (-(MaxLaps * HalfPx(RAIL_TOTAL_LENGTH)))..((MaxLaps + 1) * HalfPx(RAIL_TOTAL_LENGTH) - 1)
CallGetXY ==
    /\ fieldP >= RAIL_TOTAL_LENGTH
    /\ xyOut = NoPoint
    /\ \E trackPos \in TrackPosValues, transPos \in TransPosValues :
        /\ xyIn' = [trackPos |-> trackPos, transPos |-> transPos]
        /\ xyOut' = getXY(trackPos, transPos)
    /\ UNCHANGED <<progVars, histVars, docentVars, fieldP, fieldLines, drawn>>

\* ---- the electrons' render: culling and the vibrating class ----

\* const isUnderBattery = pos.x >= 250 && pos.x <= 400 && pos.y >= -30 && pos.y <= 45
isUnderBattery(pos) ==
    /\ pos.x >= HalfPx(250)
    /\ pos.x <= HalfPx(400)
    /\ pos.y >= HalfPx(-30)
    /\ pos.y <= HalfPx(45)

\* variant: the switch hides electrons whether it is open or closed
isUnderSwitch_ignoresSwitchState(o, pos) ==
    pos.x > HalfPx(400) /\ pos.x < HalfPx(430) /\ pos.y < HalfPx(20)

\* const isUnderSwitch = !isOpen && pos.x > 400 && pos.x < 430 && pos.y < 20
isUnderSwitch(o, pos) ==
    ~o /\ pos.x > HalfPx(400) /\ pos.x < HalfPx(430) /\ pos.y < HalfPx(20)

\* if (isUnderBattery || isUnderSwitch) return null
electronHidden(o, pos) == isUnderBattery(pos) \/ isUnderSwitch(o, pos)

\* const isVibrating = !isOpen || isDepleted
isVibrating(o, d) == ~o \/ d

\* the flags a render can see: open, closed and active, closed and exhausted
RenderFlags == {<<FALSE, FALSE>>, <<TRUE, FALSE>>, <<TRUE, TRUE>>}

\* the body of electrons.map(e => ...) for the Point getXY returned
DrawElectron ==
    /\ xyOut # NoPoint
    /\ drawn = <<>>
    /\ \E f \in RenderFlags :
          drawn' = <<[isOpen |-> f[1], isDepleted |-> f[2],
                      hidden |-> electronHidden(f[1], xyOut),
                      vibrating |-> isVibrating(f[1], f[2])]>>
    /\ UNCHANGED <<progVars, histVars, docentVars, fieldP, fieldLines, xyIn, xyOut>>

NextXY ==
    \/ FieldLineStep
    \/ CallGetXY
    \/ DrawElectron

SpecXY == InitAtOrigin /\ [][NextXY]_vars

\* ---- the tutoring panel: actions ----
RemoveAt(s, k) == [j \in 1..(Len(s) - 1) |-> IF j < k THEN s[j] ELSE s[j + 1]]

\* onChange: setInputValue(e.target.value)
ChangeInput ==
    /\ \E v \in InputValues : v # inputValue /\ inputValue' = v
    /\ docentEvent' = "input"
    /\ UNCHANGED <<progVars, histVars, xyVars, messages, isPart2, isLoading,
                   inFlight, sends, lastResult>>

\* Enter with handleSend returning at its first line
HandleSendIgnored ==
    /\ ~handleSendAccepts(inputValue, isLoading)
    /\ docentEvent' = "ignored"
    /\ UNCHANGED <<progVars, histVars, xyVars, messages, inputValue, isPart2,
                   isLoading, inFlight, sends, lastResult>>

\* Enter with handleSend running up to its await
HandleSend ==
    /\ sends < MaxSends
    /\ handleSendAccepts(inputValue, isLoading)
    /\ LET newMessages == Append(messages, [role |-> "user", text |-> Trim(inputValue)])
       IN  /\ messages' = newMessages
           /\ inFlight' = Append(inFlight, [newMessages |-> newMessages,
                                            isPart2 |-> isPart2])
    /\ inputValue' = ""
    /\ isLoading' = TRUE
    /\ sends' = sends + 1
    /\ docentEvent' = "send"
    /\ UNCHANGED <<progVars, histVars, xyVars, isPart2, lastResult>>

\* Enter with handleSend failing before its await (new GoogleGenAI throws):
\* try, catch and finally run in the same task
HandleSendThrows ==
    /\ sends < MaxSends
    /\ handleSendAccepts(inputValue, isLoading)
    /\ LET newMessages == Append(messages, [role |-> "user", text |-> Trim(inputValue)])
       IN  messages' = Append(newMessages, ErrorMessage)
    /\ inputValue' = ""
    /\ isLoading' = FALSE
    /\ sends' = sends + 1
    /\ lastResult' = [ok |-> FALSE, allFactsIdentified |-> FALSE]
    /\ docentEvent' = "error"
    /\ UNCHANGED <<progVars, histVars, xyVars, isPart2, inFlight>>

\* the awaited response arrives and parses: the rest of the try block, finally
Resolve ==
    \E k \in 1..Len(inFlight), allFactsIdentified \in BOOLEAN :
        /\ messages' = Append(inFlight[k].newMessages,
                              [role |-> "model", text |-> "reply"])
        /\ isPart2' = IF setsPart2(allFactsIdentified, inFlight[k].isPart2)
                      THEN TRUE ELSE isPart2
        /\ isLoading' = FALSE
        /\ inFlight' = RemoveAt(inFlight, k)
        /\ lastResult' = [ok |-> TRUE, allFactsIdentified |-> allFactsIdentified]
        /\ docentEvent' = "reply"
        /\ UNCHANGED <<progVars, histVars, xyVars, inputValue, sends>>

\* the request fails or its text does not parse: catch, finally
Reject ==
    \E k \in 1..Len(inFlight) :
        /\ messages' = Append(inFlight[k].newMessages, ErrorMessage)
        /\ isLoading' = FALSE
        /\ inFlight' = RemoveAt(inFlight, k)
        /\ lastResult' = [ok |-> FALSE, allFactsIdentified |-> FALSE]
        /\ docentEvent' = "error"
        /\ UNCHANGED <<progVars, histVars, xyVars, inputValue, isPart2, sends>>

\* the panel next to the circuit: the user types, sends and works the switch
NextDocent ==
    \/ ChangeInput
    \/ HandleSendIgnored
    \/ HandleSend
    \/ HandleSendThrows
    \/ Resolve
    \/ Reject
    \/ HandleToggle

SpecDocent == InitAtOrigin /\ [][NextDocent]_vars

TypeOK ==
    /\ isOpen \in BOOLEAN
    /\ isDepleted \in BOOLEAN
    /\ electrolyteH \in 0..FULL_ELECTROLYTE
    /\ ionsCount \in 0..FULL_IONS
    /\ \A i \in 1..NumElectrons : electrons[i] \in Nat

\* ======================= properties =======================

ToggleStep == toggles' # toggles
AllElectrons == 1..NumElectrons
\* every due callback has run and a frame has just been delivered
Settled ==
    /\ sinceLastFrame = 0
    /\ \A t \in batteryTimers \cup spawnTimers \cup removalTimers : t.left > 0

\* C1 (as stated): while exhausted, a toggle changes nothing: circuitClosed,
\* exhausted, electrolyteLevel, ionCount and every trackPosition are kept.
C1_ToggleIsNoOpWhenExhausted ==
    [][(isDepleted /\ ToggleStep) =>
          /\ isOpen' = isOpen
          /\ isDepleted' = isDepleted
          /\ electrolyteH' = electrolyteH
          /\ ionsCount' = ionsCount
          /\ electrons' = electrons]_vars

\* C1 (amended): while exhausted, a toggle keeps every trackPosition but is
\* not a no-op: circuitClosed, exhausted, electrolyteLevel and ionCount all
\* change.
C1_ToggleWhenExhaustedKeepsParticles ==
    [][(isDepleted /\ ToggleStep) =>
          /\ electrons' = electrons
          /\ isOpen' # isOpen
          /\ isDepleted' # isDepleted
          /\ electrolyteH' # electrolyteH
          /\ ionsCount' # ionsCount]_vars

\* a toggle has just reset an exhausted battery whose particles had moved
C1_Witness ==
    /\ lastEvent = "toggle"
    /\ resets >= 1
    /\ ticks = 0
    /\ \E i \in AllElectrons : electrons[i] # electrons0[i]

\* C2: while exhausted, one toggle yields electrolyteLevel = 75,
\* ionCount = 75, exhausted = false, circuitClosed = false.
C2_ToggleResetsWhenExhausted ==
    [][(isDepleted /\ ToggleStep) =>
          /\ electrolyteH' = 75
          /\ ionsCount' = 75
          /\ isDepleted' = FALSE
          /\ isOpen' = FALSE]_vars

\* the first reset has just happened
C2_Witness ==
    /\ lastEvent = "toggle"
    /\ resets = 1
    /\ electrolyteH = 75
    /\ ~isOpen
    /\ ~isDepleted

\* C3: in every reachable state, whatever timers are pending, running
\* resetBattery and committing it yields exactly 75 / 75 / not exhausted /
\* open, with no depletion or spawn interval left running.
C3_ResetFromAnyState ==
    LET r == resetBattery
        b == batteryEffect(batteryTimers, batteryIntervalRef, r.isOpen, r.isDepleted)
        s == spawnEffect(spawnTimers, spawnCleanup, r.isOpen, r.isDepleted)
    IN  /\ r.electrolyteH = 75
        /\ r.ionsCount = 75
        /\ r.isDepleted = FALSE
        /\ r.isOpen = FALSE
        /\ b.timers = {}
        /\ s.timers = {}

\* a reset has run while removal timeouts were still pending
C3_Witness ==
    /\ lastEvent = "toggle"
    /\ resets >= 1
    /\ removalTimers # {}
    /\ batteryTimers = {}
    /\ electrolyteH = 75

\* C4: after k depletion ticks from a full battery both quantities are
\* 75 - 5k, and the battery is exhausted exactly when k = 15.
C4_FifteenTicks ==
    /\ ticks \in 0..15
    /\ electrolyteH = 75 - 5 * ticks
    /\ ionsCount = 75 - 5 * ticks
    /\ isDepleted <=> (ticks = 15)

\* the circuit was closed once, kept closed, and the 15th tick has exhausted it
C4_Witness ==
    /\ toggles = 1
    /\ ticks = 15
    /\ isDepleted
    /\ electrolyteH = 0
    /\ ionsCount = 0

\* C5: once exhausted, no depletion interval is left, no depletion tick fires
\* and both quantities stay at 0.
C5_NoTickAfterExhaustion ==
    [][isDepleted' =>
          /\ electrolyteH' = 0
          /\ ionsCount' = 0
          /\ batteryTimers' = {}
          /\ isDepleted => (ticks' = ticks /\ lastEvent' # "deplete")]_vars

\* a full depletion period has elapsed since the exhausting tick
C5_Witness ==
    /\ isDepleted
    /\ phaseMs >= PhaseCap
    /\ lastEvent = "time"

\* C6: no step taken while the circuit is open or the battery exhausted, a
\* frame callback included, changes a trackPosition.
C6_FrozenWhenInactive ==
    [][~ClosedActive => electrons' = electrons]_vars

\* a frame callback has run while the battery was exhausted
C6_Witness ==
    /\ isDepleted
    /\ lastEvent = "frame"
    /\ phaseMs >= Quantum

\* C7: every trackPosition is (initial + 20 * t) mod 2040, t being the sum of
\* the deltas of the frames that moved the electrons, however t was split.
C7_AdvanceAdditive ==
    \A i \in AllElectrons :
        electrons[i] = (electrons0[i] + (20 * advancedMs) \div 1000) % 2040

\* the electrons have moved for longer than one frame may span, so t was
\* split over several frames, and one electron has wrapped
C7_Witness ==
    /\ advancedMs > MaxFrameGap * Quantum
    /\ lastEvent = "frame"
    /\ \E i \in AllElectrons : electrons[i] < electrons0[i]

\* C8: one second after the first closing (all due callbacks run), every
\* trackPosition has grown by 20 mod 2040, both quantities are 70 and a
\* spawn-pool entry younger than its lifetime exists.
C8_EndToEnd ==
    (toggles = 1 /\ ClosedActive /\ phaseMs = 1000 /\ Settled) =>
        /\ \A i \in AllElectrons : electrons[i] = (electrons0[i] + 20) % 2040
        /\ electrolyteH = 70
        /\ ionsCount = 70
        /\ \E k \in 1..Len(batElectrons) : batElectrons[k].age < 1000

\* C9 (as stated): outside Closed_Active none of the three time sources fires.
C9_NothingFiresWhenInactive ==
    [][~ClosedActive => lastEvent' \notin {"frame", "deplete", "spawn"}]_vars

\* C9 (amended): outside Closed_Active the depletion and spawn intervals are
\* stopped and never fire; entering Closed_Active starts one of each with a
\* full period; the frame driver stays requested in every state.
C9_IntervalsStoppedWhenInactive ==
    [][/\ ~ClosedActive => lastEvent' \notin {"deplete", "spawn"}
       /\ ~ClosedActive' => (batteryTimers' = {} /\ spawnTimers' = {})
       /\ (~ClosedActive /\ ClosedActive') =>
             /\ \E t \in batteryTimers' :
                    batteryTimers' = {t} /\ t.left = DEPLETION_INTERVAL_MS
             /\ \E t \in spawnTimers' :
                    spawnTimers' = {t} /\ t.left = SPAWN_INTERVAL_MS
       /\ frames' # {}]_vars

\* the circuit was closed, opened for a second or more, and closed again
C9_Witness ==
    /\ toggles = 3
    /\ resets = 0
    /\ ticks >= 1
    /\ ClosedActive
    /\ lastEvent = "toggle"
    /\ batElectrons = <<>>

\* C10: at most one depletion interval, one spawn interval and one pending
\* frame request exist in every reachable state.
C10_NoDuplicateTimers ==
    /\ Cardinality(frames) <= 1
    /\ Cardinality(batteryTimers) <= 1
    /\ Cardinality(spawnTimers) <= 1

\* the battery was exhausted, reset and the circuit closed again: it ticks
C10_Witness ==
    /\ toggles = 3
    /\ resets = 1
    /\ ClosedActive
    /\ lastEvent = "deplete"
    /\ Cardinality(batteryTimers) = 1
    /\ Cardinality(spawnTimers) = 1

\* C11: no callback works on state of an earlier activation: every pending
\* frame holds the current circuitClosed / exhausted flags, every depletion
\* tick lowers the then-current quantities by 5, and the first tick after a
\* reset and re-closing gives 70 / 70.
C11_NoStaleClosure ==
    [][/\ \A f \in frames' : f.isOpen = isOpen' /\ f.isDepleted = isDepleted'
       /\ (ticks' = ticks + 1) =>
             /\ electrolyteH' = Max(0, electrolyteH - 5)
             /\ ionsCount' = Max(0, ionsCount - 5)
       /\ (resets' >= 1 /\ ticks' = 1) =>
             (electrolyteH' = 70 /\ ionsCount' = 70)]_vars

\* the first tick after an exhaustion, a reset and a re-closing
C11_Witness ==
    /\ resets = 1
    /\ ticks = 1
    /\ lastEvent = "deplete"
    /\ electrolyteH = 70
    /\ \A f \in frames : f.isOpen /\ ~f.isDepleted

\* C14: a spawn-pool entry is only ever created by a step taken in
\* Closed_Active, so every birth time is a moment of Closed_Active.
C14_SpawnOnlyWhenActive ==
    [][Len(batElectrons') > Len(batElectrons) => (ClosedActive /\ ClosedActive')]_vars

\* the battery is exhausted, time has passed, and the pool only holds
\* entries born before the exhaustion
C14_Witness ==
    /\ isDepleted
    /\ phaseMs >= 2 * Quantum
    /\ batElectrons # <<>>
    /\ \A k \in 1..Len(batElectrons) : batElectrons[k].age >= phaseMs

\* C18: every trackPosition is in [0, 2040) in every reachable state.
C18_TrackPosInRange ==
    \A i \in AllElectrons : electrons[i] >= 0 /\ electrons[i] < 2040

\* an electron that started just below 2040 has been wrapped to the start
C18_Witness ==
    \E i \in AllElectrons :
        /\ electrons0[i] = 2038
        /\ electrons[i] < 40
        /\ advancedMs > 0

\* C19: a toggle of a battery that is not exhausted flips circuitClosed and
\* keeps electrolyteLevel, ionCount, exhausted and the particles.
C19_ToggleOnlyFlips ==
    [][(~isDepleted /\ ToggleStep) =>
          /\ isOpen' = ~isOpen
          /\ isDepleted' = isDepleted
          /\ electrolyteH' = electrolyteH
          /\ ionsCount' = ionsCount
          /\ electrons' = electrons
          /\ batElectrons' = batElectrons]_vars

\* closed, opened and closed again without a reset: the next tick continues
\* from the retained level
C19_Witness ==
    /\ toggles = 3
    /\ resets = 0
    /\ ClosedActive
    /\ lastEvent = "deplete"
    /\ phaseMs = 1000
    /\ ticks >= 2
    /\ electrolyteH = 75 - 5 * ticks

\* C20: exhausted holds exactly when electrolyteLevel is 0; it is set by the
\* tick that brings the level to 0 and cleared only by the reset.
C20_ExhaustedIffEmpty ==
    [][/\ isDepleted' <=> (electrolyteH' = 0)
       /\ (~isDepleted /\ isDepleted') =>
             (ticks' = ticks + 1 /\ electrolyteH = 5 /\ electrolyteH' = 0)
       /\ (isDepleted /\ ~isDepleted') => (ToggleStep /\ resets' = resets + 1)]_vars

\* the battery has been exhausted for a while and nothing has cleared it
C20_Witness ==
    /\ isDepleted
    /\ electrolyteH = 0
    /\ resets = 0
    /\ phaseMs >= Quantum
    /\ lastEvent = "time"

\* ---------------------------------------------------------------------------
\* the ages of the pool's entries, in pool order
PoolAges(pool) == [k \in 1..Len(pool) |-> pool[k].age]
WithoutIndex(s, k) == [j \in 1..(Len(s) - 1) |-> IF j < k THEN s[j] ELSE s[j + 1]]

\* C12 (as stated): an entry of the spawn pool is present at every instant of
\* [t0, t0 + 1000 ms) and absent at every instant from t0 + 1000 ms on, so no
\* entry found in the pool is 1000 ms old or older
C12_AbsentFromOneSecondOn ==
    \A k \in 1..Len(batElectrons) : batElectrons[k].age < SPAWN_LIFETIME_MS

\* C12 (amended): every entry of the pool has exactly one pending removal
\* timeout, due 1000 ms after the entry's creation whatever toggles, exhaustion
\* or reset happened since; the entry stays in the pool, its age growing with
\* the clock, until that callback runs, which happens when the timeout is due
\* or overdue and takes out that entry alone
C12_EntryLivesUntilItsTimeout ==
    [][/\ \A k \in 1..Len(batElectrons') :
             \E t \in removalTimers' :
                 /\ t.id = batElectrons'[k].id
                 /\ t.left = SPAWN_LIFETIME_MS - batElectrons'[k].age
       /\ Cardinality(removalTimers') = Len(batElectrons')
       /\ (sinceLastFrame' > sinceLastFrame) =>
             /\ Len(batElectrons') = Len(batElectrons)
             /\ \A k \in 1..Len(batElectrons) :
                    batElectrons'[k].age = batElectrons[k].age + Quantum
       /\ (Len(batElectrons') < Len(batElectrons)) =>
             /\ lastEvent' = "remove"
             /\ \E k \in 1..Len(batElectrons) :
                    /\ batElectrons[k].age >= SPAWN_LIFETIME_MS
                    /\ PoolAges(batElectrons') = WithoutIndex(PoolAges(batElectrons), k)]_vars

\* an entry born before the battery was exhausted and reset has just been
\* removed by its timeout while younger entries are still in the pool
C12_Witness ==
    /\ resets >= 1
    /\ lastEvent = "remove"
    /\ batElectrons # <<>>
    /\ \E k \in 1..Len(batElectrons) : batElectrons[k].age >= phaseMs + Quantum

\* ---------------------------------------------------------------------------
\* the progress a render computes for a pool entry, in thousandths:
\* (Date.now() - be.start) / 1000, used as it is for position and opacity
batElectronProgress(be) == (be.age * MS_PER_SECOND) \div SPAWN_LIFETIME_MS

\* the component has rendered the current state: at mount and after every
\* callback that set state (a frame sets state only while electrons move)
Rendered ==
    \/ lastEvent \in {"mount", "toggle", "deplete", "spawn", "remove"}
    \/ lastEvent = "frame" /\ animateMoves([isOpen |-> isOpen, isDepleted |-> isDepleted])

\* C13: no pool entry is ever rendered with a progress outside [0, 1]
C13_ProgressWithinUnit ==
    Rendered =>
        \A k \in 1..Len(batElectrons) :
            /\ batElectronProgress(batElectrons[k]) >= 0
            /\ batElectronProgress(batElectrons[k]) <= MS_PER_SECOND

\* ---------------------------------------------------------------------------
Abs(n) == IF n >= 0 THEN n ELSE -n
\* the side the spec assigns to a normalised position (in half pixels): top
\* 317.5, right 385, bottom 635, left 385, the remainder closing the top side
SideOf(p) ==
    IF p < 635 THEN "top"
    ELSE IF p < 1405 THEN "right"
    ELSE IF p < 2675 THEN "bottom"
    ELSE IF p < 3445 THEN "left"
    ELSE "top"

\* C15: with lateralOffset 0 the sub-ranges of the five parts are contiguous
\* and cover [0, 2040) in the order top, right, bottom, left, top; each part
\* starts at the corner where the previous one ends (p = 317.5, 702.5, 1337.5,
\* 1722.5 and the wrap from 2040 to 0), and moving half a pixel along the track
\* moves the point by half a pixel, across the corners as well
C15_ContinuousAtCorners ==
    (xyOut # NoPoint /\ xyIn.transPos = 0) =>
        LET p == normalise(xyIn.trackPos)
            next == getXY(xyIn.trackPos + 1, 0)
        IN  /\ p \in 0..(HalfPx(RAIL_TOTAL_LENGTH) - 1)
            /\ xyOut.segment = SideOf(p)
            /\ Abs(next.x - xyOut.x) + Abs(next.y - xyOut.y) = 1
            /\ (p = 0) => (xyOut.x = 650 /\ xyOut.y = 15)
            /\ (p = 635) => (xyOut.x = 1285 /\ xyOut.y = 15)
            /\ (p = 1405) => (xyOut.x = 1285 /\ xyOut.y = 785)
            /\ (p = 2675) => (xyOut.x = 15 /\ xyOut.y = 785)
            /\ (p = 3445) => (xyOut.x = 15 /\ xyOut.y = 15)
            /\ (p = HalfPx(RAIL_TOTAL_LENGTH) - 1) => (next.x = 650 /\ next.y = 15)

\* getXY was called half a pixel before the end of the left side, one lap on
C15_Witness ==
    /\ xyOut # NoPoint
    /\ xyIn.transPos = 0
    /\ xyIn.trackPos = HalfPx(RAIL_TOTAL_LENGTH) + 3444
    /\ xyOut.segment = "left"
    /\ getXY(xyIn.trackPos + 1, 0).segment = "top"

\* C16: getXY has period 2040 in trackPos, for negative positions too and for
\* every lateral offset: one lap forwards or backwards gives the same x, y and
\* side
C16_Periodic ==
    (xyOut # NoPoint) =>
        /\ getXY(xyIn.trackPos + HalfPx(RAIL_TOTAL_LENGTH), xyIn.transPos) = xyOut
        /\ getXY(xyIn.trackPos - HalfPx(RAIL_TOTAL_LENGTH), xyIn.transPos) = xyOut
        /\ getXY(normalise(xyIn.trackPos), xyIn.transPos) = xyOut

\* getXY was called with a negative position and a lateral offset, and
\* answered with a point of the bottom side
C16_Witness ==
    /\ xyOut # NoPoint
    /\ xyIn.trackPos < 0
    /\ xyIn.transPos # 0
    /\ xyOut.segment = "bottom"

\* the sampled positions the loop has gone through so far
FieldCandidates ==
    {p \in 0..(RAIL_TOTAL_LENGTH - 1) : p % FIELD_LINE_STEP = 0 /\ p < fieldP}
InBatteryWindow(pos) == pos.segment = "top" /\ pos.x >= 500 /\ pos.x <= 800

\* C17: the loop samples p = 0, 40, 80, ... < 2040, which is ceil(2040/40) = 51
\* candidates; the markers generated are exactly the candidates whose point is
\* not on the top side with x in [250, 400], in sampling order, and no marker
\* lies on the top side with x in [250, 400]
C17_FieldLineSampling ==
    LET kept == {p \in FieldCandidates : ~InBatteryWindow(getXY(HalfPx(p), 0))}
    IN  /\ fieldP % FIELD_LINE_STEP = 0
        /\ Len(fieldLines) = Cardinality(kept)
        /\ {fieldLines[k] : k \in 1..Len(fieldLines)} = {getXY(HalfPx(p), 0) : p \in kept}
        /\ \A k \in 1..Len(fieldLines) : ~InBatteryWindow(fieldLines[k])
        /\ (fieldP >= RAIL_TOTAL_LENGTH) =>
              /\ Cardinality(FieldCandidates) =
                    (RAIL_TOTAL_LENGTH + FIELD_LINE_STEP - 1) \div FIELD_LINE_STEP
              /\ Cardinality(FieldCandidates) = 51

\* the loop has finished: three of the 51 candidates fell in the battery's
\* window, and markers on the bottom side below the battery were kept
C17_Witness ==
    /\ fieldP >= RAIL_TOTAL_LENGTH
    /\ Len(fieldLines) = 48
    /\ \E k \in 1..Len(fieldLines) :
           /\ fieldLines[k].segment = "bottom"
           /\ fieldLines[k].x >= 500
           /\ fieldLines[k].x <= 800

\* ---------------------------------------------------------------------------
\* C21: electrolyteLevel and ionCount stay within [0, 75]; a step that is not
\* a reset never raises either of them, and a depletion tick lowers each by 5,
\* each with its own clamp at 0
C21_BoundedAndNonIncreasing ==
    [][/\ electrolyteH' \in 0..FULL_ELECTROLYTE
       /\ ionsCount' \in 0..FULL_IONS
       /\ (resets' = resets) =>
             (electrolyteH' <= electrolyteH /\ ionsCount' <= ionsCount)
       /\ (electrolyteH' > electrolyteH \/ ionsCount' > ionsCount) =>
             (isDepleted /\ ToggleStep /\ resets' = resets + 1)
       /\ (ticks' = ticks + 1) =>
             /\ electrolyteH' = Max(0, electrolyteH - ELECTROLYTE_DEPLETION_RATE)
             /\ ionsCount' = Max(0, ionsCount - IONS_DEPLETION_RATE)
             /\ electrolyteH' < electrolyteH
             /\ ionsCount' < ionsCount]_vars

\* the battery was drained, refilled by a reset and is being drained again
C21_Witness ==
    /\ resets >= 1
    /\ ticks >= 2
    /\ electrolyteH = FULL_ELECTROLYTE - ticks * ELECTROLYTE_DEPLETION_RATE
    /\ ionsCount = FULL_IONS - ticks * IONS_DEPLETION_RATE
    /\ ClosedActive

\* ---------------------------------------------------------------------------
\* ---- what a render of B1Circuit draws from the committed flags ----

\* variant: the bulb is lit whenever the circuit is closed
bulbColor_ignoresDepleted(o, d) == IF o THEN "#fbbf24" ELSE "#d1d5db"

\* const bulbColor = (isOpen && !isDepleted) ? '#fbbf24' : '#d1d5db'
bulbColor(o, d) == IF o /\ ~d THEN "#fbbf24" ELSE "#d1d5db"

\* {!isOpen && (<div className="absolute bg-black" .../>)}: the open switch
switchOverlayShown(o) == ~o

\* {(isOpen && !isDepleted) && fieldLinesGenerated.map(...)}
fieldLinesShown(o, d) == o /\ ~d

BulbLit == bulbColor(isOpen, isDepleted) = "#fbbf24"

\* C22: the field-line markers are rendered exactly while the circuit is closed
\* and not exhausted, and the bulb is lit in exactly the same states, never
\* while the circuit is open or the battery exhausted
C22_VisualsOnlyWhenActive ==
    /\ fieldLinesShown(isOpen, isDepleted) <=> ClosedActive
    /\ BulbLit <=> ClosedActive
    /\ (~isOpen \/ isDepleted) =>
          (~BulbLit /\ ~fieldLinesShown(isOpen, isDepleted))

\* the circuit is closed and the battery exhausted: the bulb is dark and no
\* field line is drawn although the switch is still closed
C22_Witness ==
    /\ isOpen
    /\ isDepleted
    /\ ~BulbLit
    /\ ~fieldLinesShown(isOpen, isDepleted)
    /\ lastEvent = "deplete"

\* ---------------------------------------------------------------------------
\* the rectangles the claim names, in half pixels
InBatteryRectangle(pos) == pos.x >= 500 /\ pos.x <= 800 /\ pos.y >= -60 /\ pos.y <= 90
InSwitchRectangle(pos) == pos.x > 800 /\ pos.x < 860 /\ pos.y < 40

\* C23: a particle is hidden in a render if and only if its point lies in the
\* battery rectangle, or the circuit is open and the point lies in the switch
\* rectangle; with the circuit closed the switch rectangle hides nothing; and
\* the render leaves the particle's stored position as it was
C23_OcclusionCulling ==
    [][(drawn' # drawn) =>
          LET r == drawn'[1]
          IN  /\ r.hidden <=> (\/ InBatteryRectangle(xyOut)
                               \/ (~r.isOpen /\ InSwitchRectangle(xyOut)))
              /\ r.isOpen => (r.hidden <=> InBatteryRectangle(xyOut))
              /\ xyIn' = xyIn
              /\ xyOut' = xyOut
              /\ electrons' = electrons]_vars

\* a particle under the switch, drawn while the circuit is closed: not hidden
C23_Witness ==
    /\ drawn # <<>>
    /\ drawn[1].isOpen
    /\ ~drawn[1].hidden
    /\ InSwitchRectangle(xyOut)
    /\ xyOut.segment = "top"

\* ---------------------------------------------------------------------------
\* the earlier copy of the component (src/unnamed/part_000) gives an electron
\* the class 'vibrating' on the switch alone: ${!isOpen ? 'vibrating' : ''}
vibratingClass_part000(o) == ~o

\* C24: a particle is drawn vibrating exactly when the circuit is not closed
\* and active, that is when it is open or the battery is exhausted, in either
\* copy of the component
C24_VibratesIffNotActive ==
    /\ isVibrating(isOpen, isDepleted) <=> ~ClosedActive
    /\ vibratingClass_part000(isOpen) <=> ~ClosedActive

\* ---------------------------------------------------------------------------
\* C25: electrolyteLevel equals ionCount in every state and both are multiples
\* of 5, so the two reach 0 on the same tick
C25_LevelsEqual ==
    /\ electrolyteH = ionsCount
    /\ electrolyteH % ELECTROLYTE_DEPLETION_RATE = 0
    /\ ionsCount % IONS_DEPLETION_RATE = 0
    /\ (electrolyteH = 0) <=> (ionsCount = 0)

\* the fifteenth tick has just taken both quantities from 5 to 0
C25_Witness ==
    /\ lastEvent = "deplete"
    /\ ticks = 15
    /\ electrolyteH = 0
    /\ ionsCount = 0

\* ---------------------------------------------------------------------------
\* a depletion tick comes only when the circuit has been closed and active for
\* a whole number of uninterrupted seconds
TickNeedsUninterruptedSecond ==
    (ticks' = ticks + 1) =>
        /\ ClosedActive
        /\ phaseMs >= DEPLETION_INTERVAL_MS
        /\ phaseMs % DEPLETION_INTERVAL_MS = 0

\* leaving Closed_Active discards the running interval, entering it starts one
\* with the full 1000 ms to go
IntervalRestartsOnEntry ==
    /\ (ClosedActive /\ ~ClosedActive') => batteryTimers' = {}
    /\ (~ClosedActive /\ ClosedActive') =>
          /\ Cardinality(batteryTimers') = 1
          /\ \A t \in batteryTimers' : t.left = DEPLETION_INTERVAL_MS

\* the particles advance for the closed time, all of it and nothing else: a
\* frame that moves them covers closed time only, and no closed time is left
\* unpaid when the circuit stops being active
ParticlesAdvanceForClosedTime ==
    /\ (advancedMs' > advancedMs) => sinceLastFrame <= phaseMs
    /\ (ClosedActive /\ ~ClosedActive') => Min(sinceLastFrame, phaseMs) = 0

\* C26: a depletion tick needs 1000 ms of uninterrupted Closed_Active; leaving
\* Closed_Active discards the partial interval and re-entry starts a fresh one,
\* so depletion does not add up closed time across toggles, while the particles
\* advance for all of the closed time
C26_DepletionRestartsParticlesAccumulate ==
    [][/\ TickNeedsUninterruptedSecond
       /\ IntervalRestartsOnEntry
       /\ ParticlesAdvanceForClosedTime]_vars

\* ---------------------------------------------------------------------------
\* the lifetime holds this many admission periods
MaxYoungEntries == SPAWN_LIFETIME_MS \div SPAWN_INTERVAL_MS

\* C27: whatever the toggles, exhaustions and resets, any two entries of the
\* spawn pool were born at least 200 ms apart, an entry is admitted only after
\* 200 ms of Closed_Active counted from the last entry into it, at most 5
\* entries are younger than their 1000 ms lifetime, and the pool is bounded
\* (by those 5, the one whose removal is due, and one per quantum a removal
\* may run late)
C27_BirthsApart ==
    [][/\ \A j, k \in 1..Len(batElectrons') :
             (j < k) => (batElectrons'[j].age >= batElectrons'[k].age + SPAWN_INTERVAL_MS)
       /\ Cardinality({k \in 1..Len(batElectrons') :
                          batElectrons'[k].age < SPAWN_LIFETIME_MS}) <= MaxYoungEntries
       /\ Len(batElectrons') <= MaxYoungEntries + 1 + MaxLate
       /\ (Len(batElectrons') > Len(batElectrons)) =>
             /\ phaseMs >= SPAWN_INTERVAL_MS
             /\ phaseMs % SPAWN_INTERVAL_MS = 0]_vars

\* the pool holds entries of two activations: one born before the circuit was
\* opened and closed again, one born since
C27_Witness ==
    /\ ClosedActive
    /\ toggles = 3
    /\ resets = 0
    /\ Len(batElectrons) >= 2
    /\ batElectrons[1].age > phaseMs
    /\ batElectrons[Len(batElectrons)].age < phaseMs
    /\ batElectrons[1].age < SPAWN_LIFETIME_MS

\* ---------------------------------------------------------------------------
\* points of the top rail inside the switch rectangle, in half pixels
SwitchRailPoints == {[x |-> x, y |-> 15, segment |-> "top"] : x \in 801..859}

\* C28: while exhausted the circuit is still closed: exhaustion happens in a
\* closed circuit only, and the one user action available then is the reset,
\* which clears both flags together; so neither the open-switch overlay nor
\* the switch's occlusion rule is applied while exhausted
C28_ExhaustedImpliesClosed ==
    [][/\ isDepleted' =>
             /\ isOpen'
             /\ ~switchOverlayShown(isOpen')
             /\ \A pos \in SwitchRailPoints : ~isUnderSwitch(isOpen', pos)
       /\ (~isDepleted /\ isDepleted') => (isOpen /\ ticks' = ticks + 1)
       /\ (isDepleted /\ ToggleStep) => (~isDepleted' /\ ~isOpen')
       /\ (isDepleted /\ ~ToggleStep) => (isDepleted' /\ isOpen')]_vars

\* the battery has been exhausted for a second, frames keep coming and the
\* switch is still drawn closed
C28_Witness ==
    /\ isDepleted
    /\ isOpen
    /\ ~switchOverlayShown(isOpen)
    /\ phaseMs >= DEPLETION_INTERVAL_MS
    /\ lastEvent = "frame"

\* ---------------------------------------------------------------------------
\* the transcript alternates model, user, model, ... from the intro message on
Alternates(ms) ==
    /\ Len(ms) >= 1
    /\ ms[1] = IntroMessage
    /\ \A i \in 1..Len(ms) : ms[i].role = (IF i % 2 = 1 THEN "model" ELSE "user")

\* C29: at most one request is in flight; handleSend does nothing while
\* isLoading or when the trimmed input is empty; an accepted send appends
\* exactly one user message, and its outcome exactly one model message (the
\* reply, or the fixed error text) and isLoading false; so the transcript
\* always alternates model, user, model, ... from the initial model message
C29_OneRequestAlternatingTranscript ==
    [][/\ Len(inFlight') <= 1
       /\ isLoading' <=> (inFlight' # <<>>)
       /\ Alternates(messages')
       /\ Len(messages') % 2 = (IF isLoading' THEN 0 ELSE 1)
       /\ (isLoading \/ Trim(inputValue) = "") => (sends' = sends)
       /\ (docentEvent' = "ignored") =>
             /\ messages' = messages
             /\ inputValue' = inputValue
             /\ isLoading' = isLoading
             /\ inFlight' = inFlight
             /\ isPart2' = isPart2
       /\ (sends' = sends + 1) =>
             /\ ~isLoading
             /\ Trim(inputValue) # ""
             /\ \A i \in 1..Len(messages) : messages'[i] = messages[i]
             /\ messages'[Len(messages) + 1] =
                    [role |-> "user", text |-> Trim(inputValue)]
             /\ isLoading' => (Len(messages') = Len(messages) + 1)
             /\ ~isLoading' => /\ Len(messages') = Len(messages) + 2
                               /\ messages'[Len(messages')] = ErrorMessage
       /\ (Len(inFlight') < Len(inFlight)) =>
             /\ ~isLoading'
             /\ Len(messages') = Len(messages) + 1
             /\ \A i \in 1..Len(messages) : messages'[i] = messages[i]
             /\ messages'[Len(messages')].role = "model"
             /\ messages'[Len(messages')].text =
                    (IF lastResult'.ok THEN "reply" ELSE "error")]_vars

\* Enter was pressed on a typed text while a second request was waiting for
\* its answer, after a first one had failed: nothing was sent
C29_Witness ==
    /\ isLoading
    /\ Len(inFlight) = 1
    /\ docentEvent = "ignored"
    /\ Trim(inputValue) # ""
    /\ sends = 2
    /\ \E i \in 1..Len(messages) : messages[i] = ErrorMessage

\* ---------------------------------------------------------------------------
\* the step on which a request fails: the fixed error text joins the transcript
RequestFails ==
    /\ Len(messages') > Len(messages)
    /\ messages'[Len(messages')] = ErrorMessage

\* C30: isPart2 starts false, becomes true only on a successful response whose
\* allFactsIdentified is true, and never returns to false; a failed request
\* changes neither isPart2 nor any state of the circuit
C30_PhaseFlagOnlyRises ==
    /\ ~isPart2
    /\ [][/\ (~isPart2 /\ isPart2') =>
                /\ Len(inFlight') < Len(inFlight)
                /\ docentEvent' = "reply"
                /\ lastResult'.ok
                /\ lastResult'.allFactsIdentified
          /\ isPart2 => isPart2'
          /\ RequestFails =>
                /\ ~lastResult'.ok
                /\ isPart2' = isPart2
                /\ UNCHANGED progVars]_vars

\* with the circuit closed and the second phase reached, a request has failed
C30_Witness ==
    /\ isPart2
    /\ isOpen
    /\ docentEvent = "error"
    /\ ~lastResult.ok
    /\ messages[Len(messages)] = ErrorMessage
    /\ sends >= 2

====
